---- MODULE Spec2Model ----
(***************************************************************************)
(* Model of execute_reconciliation (src/deepagent.py), the deterministic   *)
(* matching engine: read two normalized CSV files, exact-match pass,       *)
(* fee-match pass, report of the unmatched rows, write of the report.      *)
(*                                                                         *)
(* Amounts are float64 in the program (pandas parses the CSV cells), and   *)
(* the matching predicates are float64 computations.  The model keeps a    *)
(* CSV amount cell as its decimal text, an integer number of thousandths,  *)
(* and computes every predicate in IEEE-754 binary64 arithmetic with       *)
(* round-to-nearest-even, carried out on arbitrary-precision naturals      *)
(* (sequences of 15-bit limbs, least significant first).                   *)
(***************************************************************************)
EXTENDS Integers, Sequences, FiniteSets, TLC

(***************************************************************************)
(* Arbitrary-precision naturals.                                           *)
(***************************************************************************)
LimbBits == 15
Base == 2^LimbBits

RECURSIVE BNorm(_)
BNorm(a) ==
  IF a = <<>> THEN <<>>
  ELSE IF a[Len(a)] = 0 THEN BNorm(SubSeq(a, 1, Len(a) - 1)) ELSE a

RECURSIVE BFromInt(_)
BFromInt(n) == IF n = 0 THEN <<>> ELSE <<n % Base>> \o BFromInt(n \div Base)

RECURSIVE BToInt(_)
BToInt(a) == IF a = <<>> THEN 0 ELSE a[1] + Base * BToInt(Tail(a))

BRest(a) == IF a = <<>> THEN <<>> ELSE Tail(a)
BLow(a) == IF a = <<>> THEN 0 ELSE a[1]

RECURSIVE BAddC(_, _, _)
BAddC(a, b, c) ==
  IF a = <<>> /\ b = <<>> THEN (IF c = 0 THEN <<>> ELSE <<c>>)
  ELSE LET s == BLow(a) + BLow(b) + c
       IN  <<s % Base>> \o BAddC(BRest(a), BRest(b), s \div Base)

BAdd(a, b) == BAddC(a, b, 0)

RECURSIVE BSubB(_, _, _)
BSubB(a, b, br) ==
  IF a = <<>> THEN <<>>
  ELSE LET d == a[1] - BLow(b) - br
       IN  <<IF d < 0 THEN d + Base ELSE d>>
             \o BSubB(Tail(a), BRest(b), IF d < 0 THEN 1 ELSE 0)

\* a - b for a >= b
BSub(a, b) == BNorm(BSubB(a, b, 0))

RECURSIVE BCmpAt(_, _, _)
BCmpAt(a, b, i) ==
  IF i = 0 THEN 0
  ELSE IF a[i] > b[i] THEN 1
  ELSE IF a[i] < b[i] THEN -1
  ELSE BCmpAt(a, b, i - 1)

\* -1, 0, 1 as a < b, a = b, a > b (both normalized)
BCmp(a, b) ==
  IF Len(a) > Len(b) THEN 1
  ELSE IF Len(a) < Len(b) THEN -1
  ELSE BCmpAt(a, b, Len(a))

RECURSIVE BMulSmallC(_, _, _)
BMulSmallC(a, k, c) ==
  IF a = <<>> THEN (IF c = 0 THEN <<>> ELSE <<c>>)
  ELSE LET p == a[1] * k + c
       IN  <<p % Base>> \o BMulSmallC(Tail(a), k, p \div Base)

\* a * k for 0 <= k < Base
BMulSmall(a, k) == BNorm(BMulSmallC(a, k, 0))

RECURSIVE BMul(_, _)
BMul(a, b) ==
  IF a = <<>> \/ b = <<>> THEN <<>>
  ELSE LET hi == BMul(a, Tail(b))
       IN  BAdd(BMulSmall(a, b[1]), IF hi = <<>> THEN <<>> ELSE <<0>> \o hi)

RECURSIVE BDivRec(_, _)
BDivRec(a, k) ==
  IF a = <<>> THEN [q |-> <<>>, r |-> 0]
  ELSE LET hi  == BDivRec(Tail(a), k)
           cur == hi.r * Base + a[1]
       IN  [q |-> <<cur \div k>> \o hi.q, r |-> cur % k]

\* quotient and remainder of a by k, 0 < k <= Base
BDivSmall(a, k) == LET d == BDivRec(a, k) IN [q |-> BNorm(d.q), r |-> d.r]

RECURSIVE BitLenSmall(_)
BitLenSmall(n) == IF n = 0 THEN 0 ELSE 1 + BitLenSmall(n \div 2)

BBitLen(a) ==
  IF a = <<>> THEN 0 ELSE LimbBits * (Len(a) - 1) + BitLenSmall(a[Len(a)])

\* a * 2^n
BShl(a, n) ==
  IF a = <<>> THEN <<>>
  ELSE [i \in 1..(n \div LimbBits) |-> 0] \o BMulSmall(a, 2^(n % LimbBits))

\* floor(a / 2^n)
BShr(a, n) ==
  IF Len(a) <= n \div LimbBits THEN <<>>
  ELSE BDivSmall(SubSeq(a, (n \div LimbBits) + 1, Len(a)), 2^(n % LimbBits)).q

BOdd(a) == a # <<>> /\ a[1] % 2 = 1

\* a / 2^n rounded to the nearest integer, ties to even (n >= 1)
BRoundShr(a, n) ==
  LET q   == BShr(a, n)
      r   == BSub(a, BShl(q, n))
      cmp == BCmp(r, BShl(<<1>>, n - 1))
  IN  IF cmp > 0 \/ (cmp = 0 /\ BOdd(q)) THEN BAdd(q, <<1>>) ELSE q

(***************************************************************************)
(* IEEE-754 binary64 values.  A finite value is (-1)^neg * m * 2^e with m  *)
(* zero or a 53-bit natural (2^52 <= m < 2^53), so that equal values have  *)
(* equal representations; nan marks a missing cell (NaN).  Subnormals and  *)
(* overflow are out of the range of the amounts modelled.                  *)
(***************************************************************************)
MantBits == 53

FNaN == [nan |-> TRUE, neg |-> FALSE, m |-> <<>>, e |-> 0]
FZero == [nan |-> FALSE, neg |-> FALSE, m |-> <<>>, e |-> 0]

\* the double nearest to (-1)^neg * n * 2^e (n an arbitrary natural)
FRound(neg, n, e) ==
  LET len == BBitLen(n)
  IN  IF n = <<>> THEN FZero
      ELSE IF len <= MantBits
        THEN [nan |-> FALSE, neg |-> neg, m |-> BShl(n, MantBits - len),
              e |-> e - (MantBits - len)]
      ELSE LET r == BRoundShr(n, len - MantBits)
           IN  IF BBitLen(r) > MantBits
                 THEN [nan |-> FALSE, neg |-> neg, m |-> BShr(r, 1),
                       e |-> e + (len - MantBits) + 1]
                 ELSE [nan |-> FALSE, neg |-> neg, m |-> r,
                       e |-> e + (len - MantBits)]

RECURSIVE BDivPow10(_, _)
\* floor(a / 10^d), and whether anything was cut off
BDivPow10(a, d) ==
  IF d = 0 THEN [q |-> a, inexact |-> FALSE]
  ELSE LET one  == BDivSmall(a, 10)
           rest == BDivPow10(one.q, d - 1)
       IN  [q |-> rest.q, inexact |-> rest.inexact \/ one.r # 0]

GuardBits == 80

\* the double nearest to the decimal n / 10^d (n an integer): what parsing
\* the decimal text of a number gives
FromDecimal(n, d) ==
  LET mag == BFromInt(IF n < 0 THEN -n ELSE n)
      dv  == BDivPow10(BShl(mag, GuardBits), d)
      \* a sticky bit below the quotient keeps the rounding correct
      stk == BAdd(BShl(dv.q, 1), IF dv.inexact THEN <<1>> ELSE <<>>)
  IN  FRound(n < 0, stk, -(GuardBits + 1))

FAbs(x) == [x EXCEPT !.neg = FALSE]
FNeg(x) == [x EXCEPT !.neg = ~x.neg]

FMul(x, y) ==
  IF x.nan \/ y.nan THEN FNaN
  ELSE FRound(x.neg # y.neg, BMul(x.m, y.m), x.e + y.e)

\* the magnitudes of x and y as naturals over a common exponent
FAlign(x, y) ==
  IF x.m = <<>> THEN [a |-> <<>>, b |-> y.m, e |-> y.e]
  ELSE IF y.m = <<>> THEN [a |-> x.m, b |-> <<>>, e |-> x.e]
  ELSE LET e == IF x.e < y.e THEN x.e ELSE y.e
       IN  [a |-> BShl(x.m, x.e - e), b |-> BShl(y.m, y.e - e), e |-> e]

FAdd(x, y) ==
  IF x.nan \/ y.nan THEN FNaN
  ELSE LET al == FAlign(x, y)
       IN  IF x.neg = y.neg THEN FRound(x.neg, BAdd(al.a, al.b), al.e)
           ELSE IF BCmp(al.a, al.b) >= 0
             THEN FRound(x.neg, BSub(al.a, al.b), al.e)
           ELSE FRound(y.neg, BSub(al.b, al.a), al.e)

FSub(x, y) == FAdd(x, FNeg(y))

\* -1, 0, 1 as x < y, x = y, x > y (both finite)
FCmp(x, y) ==
  LET al == FAlign(x, y)
      c  == BCmp(al.a, al.b)
  IN  IF x.m = <<>> /\ y.m = <<>> THEN 0
      ELSE IF x.m = <<>> THEN (IF y.neg THEN 1 ELSE -1)
      ELSE IF y.m = <<>> THEN (IF x.neg THEN -1 ELSE 1)
      ELSE IF x.neg # y.neg THEN (IF x.neg THEN -1 ELSE 1)
      ELSE IF x.neg THEN -c ELSE c

\* comparisons with a NaN operand are false
FLt(x, y) == ~x.nan /\ ~y.nan /\ FCmp(x, y) < 0
FLe(x, y) == ~x.nan /\ ~y.nan /\ FCmp(x, y) <= 0
FGt(x, y) == FLt(y, x)

\* round(x, 2) of a finite float: the exact value of x rounded to a whole
\* number of hundredths, ties to even; the result as that number of hundredths
Round2(x) ==
  LET n == BMulSmall(x.m, 100)
      c == IF x.m = <<>> THEN 0
           ELSE IF x.e >= 0 THEN BToInt(BShl(n, x.e))
           ELSE BToInt(BRoundShr(n, -x.e))
  IN  IF x.neg THEN -c ELSE c

(***************************************************************************)
(* Cells, rows and files.                                                  *)
(*                                                                         *)
(* A CSV file is readable or not, and holds rows; a row is a record over   *)
(* the columns the file has.  A date cell is the text YYYY-MM-DD, kept as  *)
(* <<y, m, d>>; an amount cell is <<n>>, the decimal text of n thousandths *)
(* (<<200011>> is 200.011), or <<>>, the empty cell.                       *)
(***************************************************************************)
AmountDecimals == 3

\* pd.read_csv of an amount cell: the nearest float64, NaN for an empty cell
ParseAmt(cell) == IF cell = <<>> THEN FNaN ELSE FromDecimal(cell[1], AmountDecimals)

IsLeap(y) == (y % 4 = 0 /\ y % 100 # 0) \/ y % 400 = 0

DaysInMonth(y, m) ==
  IF m = 2 THEN (IF IsLeap(y) THEN 29 ELSE 28)
  ELSE IF m \in {4, 6, 9, 11} THEN 30 ELSE 31

RECURSIVE DaysBeforeMonth(_, _)
DaysBeforeMonth(y, m) ==
  IF m = 1 THEN 0 ELSE DaysBeforeMonth(y, m - 1) + DaysInMonth(y, m - 1)

\* pd.to_datetime of a date cell, as the day number of the calendar date
ToDays(date) ==
  LET y == date[1] - 1
  IN  365 * y + (y \div 4) - (y \div 100) + (y \div 400)
        + DaysBeforeMonth(date[1], date[2]) + date[3]

AbsInt(n) == IF n < 0 THEN -n ELSE n

DateTolerance == 5

\* abs((d_b - d_l).days) <= 5
DateWithin(row_l, row_b) ==
  AbsInt(ToDays(row_b.std_date) - ToDays(row_l.std_date)) <= DateTolerance

\* np.isclose(a, b, atol=0.01) with numpy's default rtol=1e-05:
\* abs(a - b) <= atol + rtol * abs(b), false when either is NaN
IsClose(a, b) ==
  FLe(FAbs(FSub(a, b)), FAdd(FromDecimal(1, 2), FMul(FromDecimal(1, 5), FAbs(b))))

\* (candidates['abs_amt'] < row_l['abs_amt']) &
\* (candidates['abs_amt'] > row_l['abs_amt'] * 0.96)
IsFeeCandidate(b, l) == FLt(b, l) /\ FGt(b, FMul(l, FromDecimal(96, 2)))

\* round(row_b['abs_amt'] - row_l['abs_amt'], 2), in hundredths
FeeDifference(b, l) == Round2(FSub(b, l))

(***************************************************************************)
(* The inputs explored.                                                    *)
(***************************************************************************)
MaxRows == 4
MaxWideRows == 6
MaxRowsTwice == 3
MaxSchemaRows == 3
MaxRuns == 2

Columns == {"std_date", "std_desc", "std_amt"}

LedgerDates == {<<2025, 1, 28>>, <<2025, 2, 8>>}
BankDates == {<<2025, 2, 2>>, <<2025, 2, 3>>}
LedgerAmounts == {<<200000>>, <<5500>>, <<>>}
BankAmounts == {<<-200010>>, <<200011>>, <<192000>>, <<-192020>>, <<5280>>}

LedgerRows ==
  [std_date : LedgerDates, std_desc : {"Invoice"}, std_amt : LedgerAmounts]
BankRows ==
  [std_date : BankDates, std_desc : {"PAYOUT"}, std_amt : BankAmounts]

\* row without the column col
DropColumn(row, col) == [c \in (DOMAIN row) \ {col} |-> row[c]]

File(rows) == [readable |-> TRUE, rows |-> rows]
Unreadable == [readable |-> FALSE, rows |-> <<>>]

Shapes(n) == {s \in (1..n) \X (1..n) : s[1] + s[2] <= n}

\* more rows, all of one date on each side, the two dates 5 days apart
WideLedgerRows ==
  {r \in LedgerRows : r.std_date = <<2025, 1, 28>> /\ r.std_amt # <<>>}
WideBankRows ==
  {r \in BankRows : r.std_date = <<2025, 2, 2>> /\ r.std_amt # <<200011>>}
WideShapes == {s \in Shapes(MaxWideRows) : s[1] >= 2 /\ s[2] >= 2}

\* rows for the files that lack a column
SchemaLedgerRows == {r \in LedgerRows : r.std_amt = <<200000>>}
SchemaBankRows == {r \in BankRows : r.std_amt \in {<<-200010>>, <<-192020>>}}

WithoutColumn(file, col) ==
  File([k \in DOMAIN file.rows |-> DropColumn(file.rows[k], col)])

(***************************************************************************)
(* The float64 predicates over the amounts explored, computed once.        *)
(***************************************************************************)
AmountCells == LedgerAmounts \cup BankAmounts
Parsed == [c \in AmountCells |-> ParseAmt(c)]
AbsValues == {FAbs(Parsed[c]) : c \in AmountCells}
CloseTable == [a \in AbsValues, b \in AbsValues |-> IsClose(a, b)]
FeeTable == [b \in AbsValues, l \in AbsValues |-> IsFeeCandidate(b, l)]
DifferenceTable ==
  [b \in AbsValues, l \in AbsValues |->
     IF b.nan \/ l.nan THEN 0 ELSE FeeDifference(b, l)]

(***************************************************************************)
(* DataFrames: a sequence of rows, the position of a row being its index   *)
(* label (read_csv gives the default RangeIndex; the model counts from 1). *)
(***************************************************************************)
ReadCsv(file) ==
  [k \in DOMAIN file.rows |->
     [c \in DOMAIN file.rows[k] |->
        IF c = "std_amt" THEN Parsed[file.rows[k][c]] ELSE file.rows[k][c]]]

\* the check of line 36 left out
IsEmptyNever(df) == FALSE

\* df.empty
IsEmpty(df) == Len(df) = 0

HasColumn(df, col) == \A k \in DOMAIN df : col \in DOMAIN df[k]

\* df['abs_amt'] = df['std_amt'].abs()
WithAbsAmt(df) ==
  [k \in DOMAIN df |->
     [c \in (DOMAIN df[k]) \cup {"abs_amt"} |->
        IF c = "abs_amt" THEN FAbs(df[k].std_amt) ELSE df[k][c]]]

\* the unclaimed index labels, last row first
UnclaimedReversed(df, matched) ==
  SelectSeq([k \in 1..Len(df) |-> Len(df) + 1 - k], LAMBDA k : k \notin matched)

\* the index labels of df that are not in matched, in the order of the rows
Unclaimed(df, matched) ==
  SelectSeq([k \in 1..Len(df) |-> k], LAMBDA k : k \notin matched)

\* the claim is not recorded
ClaimForgotten(matched, idx) == matched

\* matched.add(idx)
Claim(matched, idx) == matched \cup {idx}

\* matches.insert(0, outcome)
EmitFront(ms, outcome) == <<outcome>> \o ms

\* matches.append(outcome)
Emit(ms, outcome) == Append(ms, outcome)

RECURSIVE EmitAll(_, _)
EmitAll(ms, outcomes) ==
  IF outcomes = <<>> THEN ms
  ELSE EmitAll(Emit(ms, Head(outcomes)), Tail(outcomes))

ExactOutcome(row_l, row_b) ==
  [Match_Quality |-> "Exact Match",
   Bank_Date |-> row_b.std_date, Bank_Desc |-> row_b.std_desc,
   Bank_Amt |-> row_b.std_amt,
   Ledger_Date |-> row_l.std_date, Ledger_Desc |-> row_l.std_desc,
   Ledger_Amt |-> row_l.std_amt,
   Difference |-> 0]

FeeOutcome(row_l, row_b) ==
  [Match_Quality |-> "Partial Match (Fee)",
   Bank_Desc |-> row_b.std_desc, Ledger_Desc |-> row_l.std_desc,
   Bank_Amt |-> row_b.std_amt, Ledger_Amt |-> row_l.std_amt,
   Difference |-> DifferenceTable[row_b.abs_amt, row_l.abs_amt]]

UnmatchedBankOutcome(row_b) ==
  [Match_Quality |-> "Unmatched Bank",
   Bank_Date |-> row_b.std_date, Bank_Desc |-> row_b.std_desc,
   Bank_Amt |-> row_b.std_amt]

UnmatchedLedgerOutcome(row_l) ==
  [Match_Quality |-> "Unmatched Ledger",
   Ledger_Date |-> row_l.std_date, Ledger_Desc |-> row_l.std_desc,
   Ledger_Amt |-> row_l.std_amt]

NoHit == [kind |-> "none", idx_b |-> 0]
KeyError == [kind |-> "keyerror", idx_b |-> 0]

\* the inner loop ended after its first candidate, whatever its date
ScanFirstOnly(cands, row_l, rows_b, used) ==
  IF cands = <<>> THEN NoHit
  ELSE LET row_b == rows_b[Head(cands)]
       IN  IF "std_date" \notin DOMAIN row_l \/ "std_date" \notin DOMAIN row_b
             THEN KeyError
           ELSE IF DateWithin(row_l, row_b)
             THEN (IF used \subseteq DOMAIN row_l /\ used \subseteq DOMAIN row_b
                     THEN [kind |-> "hit", idx_b |-> Head(cands)]
                     ELSE KeyError)
           ELSE NoHit

RECURSIVE ScanDates(_, _, _, _)
\* the inner loop over the amount candidates cands (index labels of rows_b,
\* in order): the first whose date is within the tolerance is a hit and ends
\* the loop; reading a column a row does not have raises KeyError.  used are
\* the columns the outcome built on a hit reads.
ScanDates(cands, row_l, rows_b, used) ==
  IF cands = <<>> THEN NoHit
  ELSE LET row_b == rows_b[Head(cands)]
       IN  IF "std_date" \notin DOMAIN row_l \/ "std_date" \notin DOMAIN row_b
             THEN KeyError
           ELSE IF DateWithin(row_l, row_b)
             THEN (IF used \subseteq DOMAIN row_l /\ used \subseteq DOMAIN row_b
                     THEN [kind |-> "hit", idx_b |-> Head(cands)]
                     ELSE KeyError)
           ELSE ScanDates(Tail(cands), row_l, rows_b, used)

ReadError == [kind |-> "ERROR: Could not read files.", rows |-> 0]
EmptyError == [kind |-> "ERROR: One of the normalized files is empty.", rows |-> 0]
Success(n) == [kind |-> "SUCCESS: Report generated", rows |-> n]
NoResult == [kind |-> "none", rows |-> 0]
NoReport == [written |-> FALSE, rows |-> <<>>]

\* the outcomes are added to the rows the file holds
AppendedReport(old, ms) == [written |-> TRUE, rows |-> old.rows \o ms]

\* pd.DataFrame(matches).to_excel(output_path): the file is replaced
WrittenReport(old, ms) == [written |-> TRUE, rows |-> ms]

VARIABLES
  file_l, file_b,        \* the files at norm_ledger_path and norm_bank_path
  df_l, df_b,            \* the two DataFrames
  matches,               \* the list of outcomes
  refs,                  \* refs[k]: the index labels <<idx_l, idx_b>> of the rows
                         \* matches[k] was built from (0: none)
  matched_l, matched_b,  \* the claimed index labels
  idx,                   \* the position of the ledger loop of the two passes
  pc,                    \* the place in execute_reconciliation
  result,                \* the string returned
  report,                \* Reconciliation_Report.xlsx
  run, prev              \* the number of this call, and what the call before gave

vars == <<file_l, file_b, df_l, df_b, matches, refs, matched_l, matched_b, idx,
          pc, result, report, run, prev>>

NoPrev == [result |-> NoResult, pc |-> "none", matches |-> <<>>, report |-> NoReport]

\* the two files hold s[1] rows of L and s[2] rows of B, for a shape s
FilesOfShapes(L, B, shapes) ==
  \E s \in shapes :
    \E l \in [1..s[1] -> L], b \in [1..s[2] -> B] :
      file_l = File(l) /\ file_b = File(b)

\* one of the two files cannot be read, or holds no row
FilesUnusable ==
  \E s \in {<<0, 0>>, <<0, 1>>, <<1, 0>>} :
    \E l \in [1..s[1] -> LedgerRows], b \in [1..s[2] -> BankRows] :
      \E rl, rb \in BOOLEAN :
        /\ file_l = (IF rl THEN File(l) ELSE Unreadable)
        /\ file_b = (IF rb THEN File(b) ELSE Unreadable)

\* one column is missing from one of the two files
FilesLackingColumn ==
  \E s \in Shapes(MaxSchemaRows) :
    \E l \in [1..s[1] -> SchemaLedgerRows], b \in [1..s[2] -> SchemaBankRows] :
      \E col \in Columns, side \in {"ledger", "bank"} :
        /\ file_l = (IF side = "ledger" THEN WithoutColumn(File(l), col) ELSE File(l))
        /\ file_b = (IF side = "bank" THEN WithoutColumn(File(b), col) ELSE File(b))

NarrowFiles(n) ==
  \/ FilesOfShapes(LedgerRows, BankRows, Shapes(n))
  \/ FilesUnusable
  \/ FilesLackingColumn

StartOfCall ==
  /\ df_l = <<>> /\ df_b = <<>>
  /\ matches = <<>> /\ refs = <<>>
  /\ matched_l = {} /\ matched_b = {}
  /\ idx = 1
  /\ pc = "read"
  /\ result = NoResult
  /\ report = NoReport
  /\ run = 1
  /\ prev = NoPrev

Init ==
  /\ \/ NarrowFiles(MaxRows)
     \/ FilesOfShapes(WideLedgerRows, WideBankRows, WideShapes)
  /\ StartOfCall

\* lines 30-34
ReadFiles ==
  /\ pc = "read"
  /\ IF file_l.readable /\ file_b.readable
       THEN /\ df_l' = ReadCsv(file_l)
            /\ df_b' = ReadCsv(file_b)
            /\ pc' = "check_empty"
            /\ UNCHANGED result
       ELSE /\ result' = ReadError
            /\ pc' = "returned"
            /\ UNCHANGED <<df_l, df_b>>
  /\ UNCHANGED <<file_l, file_b, matches, refs, matched_l, matched_b, idx,
                 report, run, prev>>

\* line 36
CheckEmpty ==
  /\ pc = "check_empty"
  /\ IF IsEmpty(df_l) \/ IsEmpty(df_b)
       THEN result' = EmptyError /\ pc' = "returned"
       ELSE pc' = "normalize" /\ UNCHANGED result
  /\ UNCHANGED <<file_l, file_b, df_l, df_b, matches, refs, matched_l, matched_b,
                 idx, report, run, prev>>

\* lines 40-45
SignNormalize ==
  /\ pc = "normalize"
  /\ IF HasColumn(df_l, "std_amt") /\ HasColumn(df_b, "std_amt")
       THEN /\ df_l' = WithAbsAmt(df_l)
            /\ df_b' = WithAbsAmt(df_b)
            /\ matches' = <<>> /\ refs' = <<>>
            /\ matched_l' = {} /\ matched_b' = {}
            /\ idx' = 1
            /\ pc' = "exact"
       ELSE /\ pc' = "raised"
            /\ UNCHANGED <<df_l, df_b, matches, refs, matched_l, matched_b, idx>>
  /\ UNCHANGED <<file_l, file_b, result, report, run, prev>>

\* exact = candidates[np.isclose(candidates['abs_amt'], row_l['abs_amt'], atol=0.01)]
ExactCandidates(row_l) ==
  SelectSeq(Unclaimed(df_b, matched_b),
            LAMBDA j : CloseTable[df_b[j].abs_amt, row_l.abs_amt])

\* fee_candidates, for a row with row_l['abs_amt'] > 0
FeeCandidates(row_l) ==
  SelectSeq(Unclaimed(df_b, matched_b),
            LAMBDA j : FeeTable[df_b[j].abs_amt, row_l.abs_amt])

\* one round of the ledger loop of a pass: found is what the inner loop gave
\* for the row at idx, outcome the outcome a hit emits
LoopRound(found, outcome) ==
  /\ IF found.kind = "hit"
       THEN /\ matches' = Emit(matches, outcome)
            /\ refs' = Emit(refs, <<idx, found.idx_b>>)
            /\ matched_l' = Claim(matched_l, idx)
            /\ matched_b' = Claim(matched_b, found.idx_b)
       ELSE UNCHANGED <<matches, refs, matched_l, matched_b>>
  /\ IF found.kind = "keyerror"
       THEN pc' = "raised" /\ UNCHANGED idx
       ELSE idx' = idx + 1 /\ UNCHANGED pc

\* lines 50-70, one round of the loop, or its end
ExactStep ==
  /\ pc = "exact"
  /\ IF idx > Len(df_l)
       THEN /\ pc' = "fee" /\ idx' = 1
            /\ UNCHANGED <<matches, refs, matched_l, matched_b>>
       ELSE LET row_l == df_l[idx]
                found == IF idx \in matched_l THEN NoHit
                         ELSE ScanDates(ExactCandidates(row_l), row_l, df_b,
                                        {"std_date", "std_desc", "std_amt"})
            IN  LoopRound(found,
                          IF found.kind = "hit"
                            THEN ExactOutcome(row_l, df_b[found.idx_b]) ELSE <<>>)
  /\ UNCHANGED <<file_l, file_b, df_l, df_b, result, report, run, prev>>

\* lines 73-94, one round of the loop, or its end
FeeStep ==
  /\ pc = "fee"
  /\ IF idx > Len(df_l)
       THEN /\ pc' = "unmatched_bank" /\ idx' = 1
            /\ UNCHANGED <<matches, refs, matched_l, matched_b>>
       ELSE LET row_l == df_l[idx]
                found == IF idx \in matched_l \/ ~FGt(row_l.abs_amt, FZero)
                           THEN NoHit
                         ELSE ScanDates(FeeCandidates(row_l), row_l, df_b,
                                        {"std_desc", "std_amt"})
            IN  LoopRound(found,
                          IF found.kind = "hit"
                            THEN FeeOutcome(row_l, df_b[found.idx_b]) ELSE <<>>)
  /\ UNCHANGED <<file_l, file_b, df_l, df_b, result, report, run, prev>>

\* lines 97-99
ReportUnmatchedBank ==
  /\ pc = "unmatched_bank"
  /\ LET un == Unclaimed(df_b, matched_b)
     IN  IF un # <<>> /\ \E c \in Columns : ~HasColumn(df_b, c)
           THEN pc' = "raised" /\ UNCHANGED <<matches, refs>>
           ELSE /\ matches' = EmitAll(matches,
                     [k \in 1..Len(un) |-> UnmatchedBankOutcome(df_b[un[k]])])
                /\ refs' = EmitAll(refs, [k \in 1..Len(un) |-> <<0, un[k]>>])
                /\ pc' = "unmatched_ledger"
  /\ UNCHANGED <<file_l, file_b, df_l, df_b, matched_l, matched_b, idx, result,
                 report, run, prev>>

\* lines 101-103
ReportUnmatchedLedger ==
  /\ pc = "unmatched_ledger"
  /\ LET un == Unclaimed(df_l, matched_l)
     IN  IF un # <<>> /\ \E c \in Columns : ~HasColumn(df_l, c)
           THEN pc' = "raised" /\ UNCHANGED <<matches, refs>>
           ELSE /\ matches' = EmitAll(matches,
                     [k \in 1..Len(un) |-> UnmatchedLedgerOutcome(df_l[un[k]])])
                /\ refs' = EmitAll(refs, [k \in 1..Len(un) |-> <<un[k], 0>>])
                /\ pc' = "write"
  /\ UNCHANGED <<file_l, file_b, df_l, df_b, matched_l, matched_b, idx, result,
                 report, run, prev>>

\* lines 105-107
WriteReport ==
  /\ pc = "write"
  /\ report' = WrittenReport(report, matches)
  /\ result' = Success(Len(matches))
  /\ pc' = "returned"
  /\ UNCHANGED <<file_l, file_b, df_l, df_b, matches, refs, matched_l, matched_b,
                 idx, run, prev>>

Next ==
  \/ ReadFiles
  \/ CheckEmpty
  \/ SignNormalize
  \/ ExactStep
  \/ FeeStep
  \/ ReportUnmatchedBank
  \/ ReportUnmatchedLedger
  \/ WriteReport

Spec == Init /\ [][Next]_vars

\* the engine is called again on the same two files: a new call has new
\* locals; the files and the report on disk stay
CallAgain ==
  /\ pc \in {"returned", "raised"}
  /\ run < MaxRuns
  /\ prev' = [result |-> result, pc |-> pc, matches |-> matches, report |-> report]
  /\ run' = run + 1
  /\ df_l' = <<>> /\ df_b' = <<>>
  /\ matches' = <<>> /\ refs' = <<>>
  /\ matched_l' = {} /\ matched_b' = {}
  /\ idx' = 1
  /\ pc' = "read"
  /\ result' = NoResult
  /\ UNCHANGED <<file_l, file_b, report>>

InitTwice == NarrowFiles(MaxRowsTwice) /\ StartOfCall
NextTwice == Next \/ CallAgain
SpecTwice == InitTwice /\ [][NextTwice]_vars

(***************************************************************************)
(* Vocabulary of the properties.                                           *)
(***************************************************************************)
Completed == pc = "returned" /\ result = Success(Len(matches))

Quality(k) == matches[k].Match_Quality
PairQualities == {"Exact Match", "Partial Match (Fee)"}
Positions(q) == {k \in DOMAIN matches : Quality(k) = q}
PairPositions == {k \in DOMAIN matches : Quality(k) \in PairQualities}

\* the unsigned amount of a cell of the input, in thousandths, as its decimal
\* text gives it
Unsigned(cell) == AbsInt(cell[1])

SetMin(S) == CHOOSE x \in S : \A y \in S : x <= y

\* the predicates of the two passes, as the program computes them, on the
\* rows with index labels il and ib
ExactPair(il, ib) ==
  /\ CloseTable[df_b[ib].abs_amt, df_l[il].abs_amt]
  /\ DateWithin(df_l[il], df_b[ib])

FeePair(il, ib) ==
  /\ FGt(df_l[il].abs_amt, FZero)
  /\ FeeTable[df_b[ib].abs_amt, df_l[il].abs_amt]
  /\ DateWithin(df_l[il], df_b[ib])

HasDates == HasColumn(df_l, "std_date") /\ HasColumn(df_b, "std_date")

\* the bank rows claimed by the outcomes before position k
ClaimedBefore(k) == {refs[j][2] : j \in {j \in PairPositions : j < k}}

(***************************************************************************)
(* C1.  Partition: when a run completes, every ledger row and every bank   *)
(* row is referenced by exactly one outcome, a matched outcome references  *)
(* one row of each side and an unmatched one a row of its side only, each  *)
(* outcome shows the amounts of the rows it references, and the number of  *)
(* outcomes is |ledger| + |bank| - the number of matched pairs.            *)
(***************************************************************************)
PartitionOfInputs ==
  Completed =>
    /\ Len(refs) = Len(matches)
    /\ \A il \in DOMAIN file_l.rows :
         Cardinality({k \in DOMAIN refs : refs[k][1] = il}) = 1
    /\ \A ib \in DOMAIN file_b.rows :
         Cardinality({k \in DOMAIN refs : refs[k][2] = ib}) = 1
    /\ \A k \in DOMAIN matches :
         /\ refs[k][1] \in 0..Len(file_l.rows)
         /\ refs[k][2] \in 0..Len(file_b.rows)
         /\ Quality(k) \in PairQualities => refs[k][1] # 0 /\ refs[k][2] # 0
         /\ Quality(k) = "Unmatched Bank" => refs[k][1] = 0 /\ refs[k][2] # 0
         /\ Quality(k) = "Unmatched Ledger" => refs[k][1] # 0 /\ refs[k][2] = 0
         /\ refs[k][1] # 0 =>
              matches[k].Ledger_Amt = Parsed[file_l.rows[refs[k][1]].std_amt]
         /\ refs[k][2] # 0 =>
              matches[k].Bank_Amt = Parsed[file_b.rows[refs[k][2]].std_amt]
    /\ Len(matches)
         = Len(file_l.rows) + Len(file_b.rows) - Cardinality(PairPositions)

PartitionWitness ==
  /\ Completed
  /\ Positions("Exact Match") # {}
  /\ Positions("Partial Match (Fee)") # {}
  /\ Positions("Unmatched Bank") # {}
  /\ Positions("Unmatched Ledger") # {}

(***************************************************************************)
(* C2.  An 'Exact Match' outcome pairs rows whose unsigned amounts differ  *)
(* by at most 0.01 (and whose dates are at most 5 days apart): a pair      *)
(* 0.011 apart is never emitted as 'Exact Match'.                          *)
(***************************************************************************)
ExactWithinOneCent ==
  \A k \in Positions("Exact Match") :
    LET l == file_l.rows[refs[k][1]]
        b == file_b.rows[refs[k][2]]
    IN  /\ AbsInt(Unsigned(b.std_amt) - Unsigned(l.std_amt)) <= 10
        /\ AbsInt(ToDays(b.std_date) - ToDays(l.std_date)) <= 5

(***************************************************************************)
(* C3.  A 'Partial Match (Fee)' outcome pairs a ledger row of unsigned     *)
(* amount > 0 with a bank row of unsigned amount strictly below it and     *)
(* strictly above 96% of it, dates at most 5 days apart, and shows a       *)
(* difference <= 0: a bank amount at exactly 96% never matches.            *)
(***************************************************************************)
FeeStrictlyAbove96 ==
  \A k \in Positions("Partial Match (Fee)") :
    LET l == file_l.rows[refs[k][1]]
        b == file_b.rows[refs[k][2]]
    IN  /\ Unsigned(l.std_amt) > 0
        /\ Unsigned(b.std_amt) < Unsigned(l.std_amt)
        /\ 100 * Unsigned(b.std_amt) > 96 * Unsigned(l.std_amt)
        /\ AbsInt(ToDays(b.std_date) - ToDays(l.std_date)) <= 5
        /\ matches[k].Difference <= 0

(***************************************************************************)
(* C4.  All or nothing: with a file that cannot be read or holds no row,   *)
(* the run returns an error without entering a pass, produces no outcome   *)
(* and writes no report; the report is written only by a run that has      *)
(* completed the two passes and the report of the unmatched rows, and it   *)
(* is the whole list of outcomes; a run that raised wrote nothing.         *)
(***************************************************************************)
AllOrNothing ==
  /\ (~file_l.readable \/ ~file_b.readable
        \/ Len(file_l.rows) = 0 \/ Len(file_b.rows) = 0) =>
       /\ pc \in {"read", "check_empty", "returned"}
       /\ matches = <<>>
       /\ ~report.written
       /\ pc = "returned" => result \in {ReadError, EmptyError}
  /\ pc = "returned" /\ result = ReadError =>
       ~file_l.readable \/ ~file_b.readable
  /\ report.written =>
       /\ Completed
       /\ report.rows = matches
       /\ \A il \in DOMAIN df_l : \E k \in DOMAIN refs : refs[k][1] = il
       /\ \A ib \in DOMAIN df_b : \E k \in DOMAIN refs : refs[k][2] = ib
  /\ pc = "raised" => ~report.written /\ result = NoResult

AllOrNothingWitness ==
  /\ pc = "returned"
  /\ result = EmptyError
  /\ Len(file_l.rows) + Len(file_b.rows) > 0
  /\ ~report.written

\* a row without one of the three columns, or with an empty amount cell
RowLacksField(row) ==
  \/ \E c \in Columns : c \notin DOMAIN row
  \/ "std_amt" \in DOMAIN row /\ row.std_amt = <<>>

(***************************************************************************)
(* C5.  A record that lacks a required field is fatal: a run on an input   *)
(* in which a row has no date, no description or no amount does not        *)
(* report success.                                                         *)
(***************************************************************************)
AbsentFieldIsFatal ==
  (\/ \E k \in DOMAIN file_l.rows : RowLacksField(file_l.rows[k])
   \/ \E k \in DOMAIN file_b.rows : RowLacksField(file_b.rows[k]))
    => ~Completed /\ ~report.written

\* what a round of a pass on the ledger row at idx does, by first fit
FirstFitRound ==
  (pc \in {"exact", "fee"} /\ idx <= Len(df_l) /\ HasDates /\ pc' # "raised") =>
    LET fits == {j \in (1..Len(df_b)) \ matched_b :
                   IF pc = "exact" THEN ExactPair(idx, j) ELSE FeePair(idx, j)}
    IN  /\ idx' = idx + 1
        /\ IF fits = {} \/ idx \in matched_l
             THEN /\ matched_l' = matched_l /\ matched_b' = matched_b
                  /\ matches' = matches
             ELSE /\ matched_l' = matched_l \cup {idx}
                  /\ matched_b' = matched_b \cup {SetMin(fits)}
                  /\ refs' = Append(refs, <<idx, SetMin(fits)>>)
                  /\ matches'[Len(matches')].Match_Quality
                       = (IF pc = "exact" THEN "Exact Match"
                          ELSE "Partial Match (Fee)")

(***************************************************************************)
(* C6.  First fit: a round of either pass on the ledger row at idx binds   *)
(* it to the first bank row, in the order of the bank rows, among those    *)
(* unclaimed that satisfy the amount predicate and the date predicate of   *)
(* the pass; when there is none the row stays unclaimed; the rounds go     *)
(* through the ledger rows in order.                                       *)
(***************************************************************************)
FirstFit == [][FirstFitRound]_vars

\* a bound bank row that comes after an unclaimed one that was close in
\* amount and too far in date
FirstFitWitness ==
  /\ HasDates
  /\ pc \in {"fee", "unmatched_bank"}
  /\ \E k \in Positions("Exact Match") :
       \E j \in 1..(refs[k][2] - 1) :
         /\ j \notin ClaimedBefore(k)
         /\ CloseTable[df_b[j].abs_amt, df_l[refs[k][1]].abs_amt]
         /\ ~DateWithin(df_l[refs[k][1]], df_b[j])

BankFields == {"Bank_Date", "Bank_Desc", "Bank_Amt"}
LedgerFields == {"Ledger_Date", "Ledger_Desc", "Ledger_Amt"}

(***************************************************************************)
(* C7.  Every matched outcome shows the date, the description and the      *)
(* amount of both rows and a difference; every unmatched outcome those of  *)
(* its own row and nothing of the other side.                              *)
(***************************************************************************)
OutcomeFields ==
  \A k \in DOMAIN matches :
    DOMAIN matches[k] =
      {"Match_Quality"} \cup
        (CASE Quality(k) \in PairQualities ->
                BankFields \cup LedgerFields \cup {"Difference"}
           [] Quality(k) = "Unmatched Bank" -> BankFields
           [] Quality(k) = "Unmatched Ledger" -> LedgerFields)

(***************************************************************************)
(* C8.  Determinism: a call of the engine on the files of the call before  *)
(* ends as that call did, with the same outcomes in the same order and     *)
(* the same report.                                                        *)
(***************************************************************************)
SameAsCallBefore ==
  (run > 1 /\ pc \in {"returned", "raised"}) =>
    /\ pc = prev.pc
    /\ result = prev.result
    /\ matches = prev.matches
    /\ report = prev.report

SameAsCallBeforeWitness ==
  /\ run > 1
  /\ Completed
  /\ PairPositions # {}
  /\ Positions("Unmatched Bank") # {}

\* the place of a quality in the report
Rank(q) ==
  CASE q = "Exact Match" -> 1
    [] q = "Partial Match (Fee)" -> 2
    [] q = "Unmatched Bank" -> 3
    [] q = "Unmatched Ledger" -> 4

(***************************************************************************)
(* C9.  Stage order: the outcomes are the exact matches, then the fee      *)
(* matches, then the unmatched bank rows, then the unmatched ledger rows,  *)
(* each group in the order of the rows of its side; no fee match exists    *)
(* while the exact pass runs and no unmatched outcome while a pass runs.   *)
(***************************************************************************)
StageOrder ==
  /\ \A j, k \in DOMAIN matches :
       j < k =>
         /\ Rank(Quality(j)) <= Rank(Quality(k))
         /\ Quality(j) = Quality(k) =>
              IF Quality(j) = "Unmatched Bank"
                THEN refs[j][2] < refs[k][2]
                ELSE refs[j][1] < refs[k][1]
  /\ pc = "exact" => \A k \in DOMAIN matches : Quality(k) = "Exact Match"
  /\ pc \in {"exact", "fee"} =>
       \A k \in DOMAIN matches : Quality(k) \in PairQualities

StageOrderWitness ==
  /\ Completed
  /\ Cardinality(Positions("Exact Match")) >= 1
  /\ Cardinality(Positions("Partial Match (Fee)")) >= 1
  /\ Cardinality(Positions("Unmatched Bank")) >= 1
  /\ Positions("Unmatched Ledger") # {}

(***************************************************************************)
(* C10.  Maximality: when a run completes, no unmatched ledger row and     *)
(* unmatched bank row satisfy the predicate of the exact pass or that of   *)
(* the fee pass, as the program computes them, and no fee match satisfies  *)
(* the predicate of the exact pass.                                        *)
(***************************************************************************)
GreedyIsMaximal ==
  Completed =>
    /\ \A j \in Positions("Unmatched Ledger"), k \in Positions("Unmatched Bank") :
         ~ExactPair(refs[j][1], refs[k][2]) /\ ~FeePair(refs[j][1], refs[k][2])
    /\ \A k \in Positions("Partial Match (Fee)") :
         ~ExactPair(refs[k][1], refs[k][2])

\* two unmatched rows close in amount and too far apart in date
GreedyIsMaximalWitness ==
  /\ Completed
  /\ \E j \in Positions("Unmatched Ledger"), k \in Positions("Unmatched Bank") :
       /\ CloseTable[df_b[refs[k][2]].abs_amt, df_l[refs[j][1]].abs_amt]
       /\ ~DateWithin(df_l[refs[j][1]], df_b[refs[k][2]])
  /\ Positions("Partial Match (Fee)") # {}
====
